---- MODULE Spec2Model ----
(***************************************************************************)
(* A model of azure-gcp-vision-extractor.py: main's client initialization, *)
(* its scan of input_path and its loop over the discovered files,          *)
(* process_file's classification and three submission strategies, the      *)
(* Azure Read polling loop, the three text aggregation variants and        *)
(* save_results.  Text is modelled character by character (a string is a   *)
(* sequence of one-character strings) so that the slicing and stripping    *)
(* arithmetic of the source is computed, not assumed.                      *)
(*                                                                         *)
(* The three other scripts of the repository are modelled beside it, each  *)
(* with its own variables and its own specification: multi_extractor.py    *)
(* (provider selection, the initialization loop, the loop over providers,  *)
(* the image and PDF processors and the save), gdocai.py (the checks of    *)
(* the command line, get_mime_type, process_document_sample and the        *)
(* report) and mtext_extractor.py (the order of its checks and its side    *)
(* effects).  While one script runs the variables of the others stay idle. *)
(***************************************************************************)
EXTENDS Integers, Sequences, FiniteSets, TLC

\* ------------------------------------------------------------------ bounds

\* Longest run of files main iterates over.
MaxFiles == 2
\* Most pages a PDF rasterizes to / a provider result holds.
MaxPages == 2
\* Most text lines of one Azure read result page.
MaxLines == 1
\* Last second of the wall clock a run can end in (it starts in second 0).
MaxClock == 1
\* Length of a scripted status sequence of one Azure Read job.
MaxPolls == 3

\* ----------------------------------------------------------------- strings

NL == "\n"
SP == " "
Whitespace == {NL, SP}

\* "--- Page Break ---"
Marker ==
    <<"-", "-", "-", SP, "P", "a", "g", "e", SP, "B", "r", "e", "a", "k", SP, "-", "-", "-">>

\* "\n\n--- Page Break ---\n\n"
PageBreak == <<NL, NL>> \o Marker \o <<NL, NL>>

\* "\n--- Page Break ---\n\n": what ocr_azure_read_stream appends after a page.
AzurePageTail == <<NL>> \o Marker \o <<NL, NL>>

Min(a, b) == IF a < b THEN a ELSE b
Max(a, b) == IF a > b THEN a ELSE b

\* Python s[:-n] for n >= 1.
DropLast(s, n) == SubSeq(s, 1, Max(Len(s) - n, 0))

\* Python s.endswith(suf).
EndsWith(s, suf) ==
    /\ Len(suf) <= Len(s)
    /\ SubSeq(s, Len(s) - Len(suf) + 1, Len(s)) = suf

\* Python s.strip(): leading and trailing whitespace removed.
Strip(s) ==
    LET keep == {i \in 1..Len(s) : s[i] \notin Whitespace}
    IN  IF keep = {} THEN <<>>
        ELSE LET lo == CHOOSE i \in keep : \A j \in keep : i <= j
                 hi == CHOOSE i \in keep : \A j \in keep : i >= j
             IN  SubSeq(s, lo, hi)

RECURSIVE Concat(_)
\* "".join(parts)
Concat(parts) ==
    IF parts = <<>> THEN <<>> ELSE Head(parts) \o Concat(Tail(parts))

RECURSIVE Join(_, _)
\* Python sep.join(parts)
Join(sep, parts) ==
    IF parts = <<>> THEN <<>>
    ELSE IF Len(parts) = 1 THEN Head(parts)
    ELSE Head(parts) \o sep \o Join(sep, Tail(parts))

\* ------------------------------------------------------------ Python values

\* Python None.
None == [tag |-> "None"]
\* A str value.
Str(v) == [tag |-> "str", val |-> v]
\* A dict value; fields is a record (the empty function for {}).
Dict(f) == [tag |-> "dict", fields |-> f]
EmptyFields == [k \in {} |-> k]

\* Python truthiness of an optional str / optional dict.
Truthy(v) ==
    /\ v # None
    /\ IF v.tag = "str" THEN v.val # <<>> ELSE DOMAIN v.fields # {}

\* -------------------------------------------------------- provider results

\* All sequences over S of length 0..n.
SeqsUpTo(S, n) == UNION {[1..k -> S] : k \in 0..n}

\* Texts of one recognised line (line.text).
LineTexts == {<<"a">>}

\* analyze_result.read_results of a succeeded Azure job: pages of lines.
AzureReadResults == SeqsUpTo(SeqsUpTo(LineTexts, MaxLines), MaxPages)

\* read_results for one rasterized page (a PNG image): one page of lines.
PageReadResults == [1..1 -> SeqsUpTo(LineTexts, MaxLines)]

\* full_text_annotation.text of a Google response that detected text.
GoogleTexts == {<<"a">>, <<"a", NL>>}

\* A Google AnnotateImageResponse without error: with or without a
\* full_text_annotation.
GoogleResponses ==
    {[annotation |-> FALSE, text |-> <<>>]}
        \cup {[annotation |-> TRUE, text |-> t] : t \in GoogleTexts}

\* MessageToDict(response._pb): a response with no field set is {}.
MessageToDict(resp) ==
    IF resp.annotation
    THEN Dict([fullTextAnnotation |-> [text |-> resp.text]])
    ELSE Dict(EmptyFields)

\* What the Google image call can do: raise (transport, authentication,
\* response.error.message) or answer.
GoogleImageOutcomes ==
    {[kind |-> "exception", resp |-> [annotation |-> FALSE, text |-> <<>>]]}
        \cup {[kind |-> "response", resp |-> r] : r \in GoogleResponses}

\* ocr_google_image_bytes: (text, json) of one image submission.
OcrGoogleImageBytes(outcome) ==
    IF outcome.kind = "exception"
    THEN <<None, None>>
    ELSE <<Str(IF outcome.resp.annotation THEN outcome.resp.text ELSE <<>>),
           MessageToDict(outcome.resp)>>

\* What the Google PDF operation can do: raise (also on open/read of the
\* file and on the 600 s timeout), answer with no file response, or answer
\* with the per-page responses of the file.
GooglePdfOutcomes ==
    {[kind |-> "exception", responses |-> <<>>],
     [kind |-> "no_responses", responses |-> <<>>]}
        \cup {[kind |-> "responses", responses |-> rs] :
                rs \in SeqsUpTo(GoogleResponses, MaxPages)}

RECURSIVE GooglePdfAllText(_)
\* The loop of ocr_google_pdf over file_response.responses: a page with a
\* full_text_annotation adds its text and a page break.
GooglePdfAllText(responses) ==
    IF responses = <<>> THEN <<>>
    ELSE (IF Head(responses).annotation
          THEN Head(responses).text \o PageBreak
          ELSE <<>>) \o GooglePdfAllText(Tail(responses))

\* The trailing page break removal shared by ocr_google_pdf and the forced
\* per-page join: strip, drop a final marker, strip again.
TrimTrailingBreak(t) ==
    IF t # <<>>
    THEN LET s == Strip(t)
         IN  IF EndsWith(s, Marker) THEN Strip(DropLast(s, Len(Marker))) ELSE s
    ELSE t

\* A pages list that keeps only the pages on which text was found.
GooglePdfPages_TextPagesOnly(responses) ==
    LET withText == SelectSeq([i \in 1..Len(responses) |-> i],
                              LAMBDA i : responses[i].annotation)
    IN  [k \in 1..Len(withText) |->
            [page_number_from_ocr_iteration |-> withText[k],
             raw |-> MessageToDict(responses[withText[k]])]]

\* The pages list of ocr_google_pdf's envelope.
GooglePdfPages(responses) ==
    [i \in 1..Len(responses) |->
        [page_number_from_ocr_iteration |-> i, raw |-> MessageToDict(responses[i])]]

\* ocr_google_pdf: (text, json) of one direct PDF submission.
OcrGooglePdf(outcome, name) ==
    IF outcome.kind = "exception" THEN <<None, None>>
    ELSE IF outcome.kind = "no_responses"
    THEN <<None, Dict([error |-> "No responses from Google PDF processing"])>>
    ELSE <<Str(TrimTrailingBreak(GooglePdfAllText(outcome.responses))),
           Dict([pages |-> GooglePdfPages(outcome.responses), source_file |-> name])>>

\* Statuses of an Azure Read operation.
Statuses == {"notStarted", "running", "succeeded", "failed"}

\* A loop condition that takes notStarted for a final status.
PollContinues_OnlyRunning(status) == status = "running"

\* The loop condition of ocr_azure_read_stream: keep polling on this status.
PollContinues(status) == status \in {"notStarted", "running"}

\* Scripted status sequences of one job: in-progress statuses, in any
\* order, until the job reaches a final status and keeps it.  A provider
\* that has run out of script keeps answering its last status.
Scripts ==
    {s \in [1..MaxPolls -> Statuses] :
        \A i \in 1..(MaxPolls - 1) :
            s[i] \in {"succeeded", "failed"} => s[i + 1] = s[i]}

RECURSIVE AzureAllText(_)
\* The loops of ocr_azure_read_stream over read_results and lines.
AzureAllText(read_results) ==
    IF read_results = <<>> THEN <<>>
    ELSE Concat([i \in 1..Len(Head(read_results)) |-> Head(read_results)[i] \o <<NL>>])
            \o AzurePageTail \o AzureAllText(Tail(read_results))

\* A result text that is stripped but keeps the tail of the last page.
AzureText_NoCut(read_results) == Strip(AzureAllText(read_results))

\* The text ocr_azure_read_stream returns for a succeeded job.
AzureText(read_results) ==
    LET t == AzureAllText(read_results)
    IN  IF t # <<>> THEN Strip(DropLast(t, Len(PageBreak))) ELSE t

\* A result that hands back the initial text_content = "" instead of None
\* when the job did not succeed.
OcrAzureResult_EmptyTextOnFailure(status, read_results) ==
    IF status = "succeeded"
    THEN <<Str(<<>>), Dict([status |-> status, read_results |-> read_results])>>
    ELSE <<Str(<<>>), Dict([error |-> status, details |-> [status |-> status]])>>

\* What ocr_azure_read_stream returns once the polling loop has ended on
\* status: (text, as_dict()) on success, (None, failure object) otherwise.
OcrAzureResult(status, read_results) ==
    IF status = "succeeded"
    THEN <<Str(AzureText(read_results)),
           Dict([status |-> status, read_results |-> read_results])>>
    ELSE <<None, Dict([error |-> status, details |-> [status |-> status]])>>

\* The join of process_file's forced per-page branch.
ForcedJoinText(parts) == TrimTrailingBreak(Join(PageBreak, parts))

\* -------------------------------------------------------------- file paths

UpperLetters ==
    <<"A", "B", "C", "D", "E", "F", "G", "H", "I", "J", "K", "L", "M",
      "N", "O", "P", "Q", "R", "S", "T", "U", "V", "W", "X", "Y", "Z">>
LowerLetters ==
    <<"a", "b", "c", "d", "e", "f", "g", "h", "i", "j", "k", "l", "m",
      "n", "o", "p", "q", "r", "s", "t", "u", "v", "w", "x", "y", "z">>

\* str.lower() on one character.
LowerChar(c) ==
    IF \E i \in 1..Len(UpperLetters) : UpperLetters[i] = c
    THEN LowerLetters[CHOOSE i \in 1..Len(UpperLetters) : UpperLetters[i] = c]
    ELSE c

\* Python s.lower().
Lower(s) == [i \in 1..Len(s) |-> LowerChar(s[i])]

\* SUPPORTED_IMAGE_EXTENSIONS
SUPPORTED_IMAGE_EXTENSIONS ==
    {<<".", "p", "n", "g">>, <<".", "j", "p", "g">>, <<".", "j", "p", "e", "g">>,
     <<".", "b", "m", "p">>, <<".", "t", "i", "f", "f">>, <<".", "t", "i", "f">>,
     <<".", "g", "i", "f">>, <<".", "w", "e", "b", "p">>}

\* SUPPORTED_PDF_EXTENSION
SUPPORTED_PDF_EXTENSION == <<".", "p", "d", "f">>

\* A path as pathlib splits it: its stem and its suffix.
Path(stem, ext) == [stem |-> stem, ext |-> ext]

\* process_file: file_ext = suffix.lower(); is_pdf = file_ext == '.pdf'.
is_pdf(path) == Lower(path.ext) = SUPPORTED_PDF_EXTENSION

\* A membership test on the suffix as written, not lowered.
is_image_CaseSensitive(path) == path.ext \in SUPPORTED_IMAGE_EXTENSIONS

\* process_file: is_image = file_ext in SUPPORTED_IMAGE_EXTENSIONS.
is_image(path) == Lower(path.ext) \in SUPPORTED_IMAGE_EXTENSIONS

\* main's filter of the input file and of the scanned directory entries.
MainAccepts(path) ==
    \/ Lower(path.ext) \in SUPPORTED_IMAGE_EXTENSIONS
    \/ Lower(path.ext) = SUPPORTED_PDF_EXTENSION

\* The files under input_path the runs are checked on: a PDF, an image
\* with the same stem and an upper-case suffix, and a Word document.
RunPaths ==
    {Path("a", <<".", "p", "d", "f">>),
     Path("a", <<".", "P", "N", "G">>),
     Path("b", <<".", "d", "o", "c", "x">>)}

\* The suffixes process_file is checked on, one call per suffix: the nine
\* supported ones, variants in other cases, and unsupported ones (among
\* them no suffix at all and near misses).
CallSuffixes ==
    SUPPORTED_IMAGE_EXTENSIONS
        \cup {SUPPORTED_PDF_EXTENSION,
              <<".", "P", "D", "F">>, <<".", "P", "d", "f">>,
              <<".", "P", "N", "G">>, <<".", "J", "p", "e", "G">>,
              <<".", "T", "I", "F">>, <<".", "W", "E", "B", "P">>,
              <<".", "d", "o", "c", "x">>, <<".", "t", "x", "t">>, <<>>,
              <<".", "p", "d", "f", "x">>, <<".", "p", "n">>, <<"p", "d", "f">>}

\* -------------------------------------------------------------------- state

VARIABLES
    api_choice,               \* args.api
    force_pdf_to_images,      \* args.force_pdf_to_images
    creds,                    \* what the credentials file of args.api is like
    input_kind,               \* input_path: a file, a directory, neither
    dir_entries,              \* the files at input_path (rglob order)
    client,                   \* the client of args.api
    files_to_process,         \* main's list of paths
    idx,                      \* position of main's for loop (0: not started)
    pc,                       \* where the run is
    raised,                   \* where an uncaught exception was raised
    strategy,                 \* the submission strategy taken for the file
    text_content,             \* process_file's text_content
    json_response,            \* process_file's json_response
    npages,                   \* len(images_from_path)
    page_num,                 \* page_num of the forced per-page loop
    page_text,                \* page_text of the current page
    page_json,                \* page_json of the current page
    all_text_parts,           \* all_text_parts
    all_json_responses_parts, \* all_json_responses_parts
    caller,                   \* which branch called ocr_azure_read_stream
    script,                   \* the statuses the provider answers, in order
    checks,                   \* get_read_result calls of the current job
    waits,                    \* time.sleep(2) calls of the current job
    read_status,              \* read_result.status of the last check
    now,                      \* the second datetime.now() last fell in
    out_stem,                 \* per file: its output_filename_base
    outputs,                  \* per file: what exists of its .txt and .json
    provider_failed           \* a provider call of the current file failed

\* multi_extractor.py
VARIABLES
    args_provider,            \* args.provider
    args_model,               \* args.model
    env_keys,                 \* the providers whose API key is in the environment
    init_fails,               \* the providers whose client/model cannot be built
    mx_file_exists,           \* os.path.exists(args.file_path)
    mx_file_kind,             \* file_ext: of an image, ".pdf", or another one
    mx_pc,                    \* where the script is
    mx_raised,                \* the exception that ended the script
    providers_to_use_config,  \* the dict, as its items in insertion order
    init_i,                   \* items the initialization loop has taken
    init_len,                 \* size of the dict when that loop started
    proc_i,                   \* items the processing loop has taken
    extracted_text,           \* extracted_text of the current provider
    call_failed,              \* the current provider's call failed
    page_pil_images,          \* len(page_pil_images)
    pdf_i,                    \* pages process_pdf_file_with_provider has done
    all_page_texts,           \* all_page_texts
    all_results,              \* all_results, as its items in insertion order
    mx_outputs                \* the output files: provider, content, failed call

\* gdocai.py
VARIABLES
    gd_pc,                    \* where the script is
    project_id_set,           \* args.project_id is neither empty nor the placeholder
    processor_id_set,         \* args.processor_id likewise
    gd_file_exists,           \* os.path.exists(args.file_path)
    gd_suffix,                \* the suffix of args.file_path
    output_file_given,        \* args.output_file
    file_mime_type,           \* file_mime_type
    gd_submitted,             \* process_document was called
    document_data,            \* document_data: None, with text, without text
    gd_output                 \* what exists of args.output_file

\* mtext_extractor.py
VARIABLES
    mt_pc,                    \* where the script is
    api_key_set,              \* MISTRAL_API_KEY is set and not empty
    mt_suffix,                \* args.file.suffix as given
    mt_file_readable,         \* open(args.file) and read() succeed
    out_given,                \* args.out was given
    images_given,             \* args.images was given
    mt_raised,                \* the exception that ended the script
    mt_events                 \* the side effects so far, in order

extractorVars ==
    <<api_choice, force_pdf_to_images, creds, input_kind, dir_entries, client,
      files_to_process, idx, pc, raised, strategy,
      text_content, json_response, npages, page_num, page_text, page_json,
      all_text_parts, all_json_responses_parts, caller, script, checks, waits,
      read_status, now, out_stem, outputs, provider_failed>>

mxArgs ==
    <<args_provider, args_model, env_keys, init_fails, mx_file_exists, mx_file_kind>>
mxPdf == <<page_pil_images, pdf_i, all_page_texts>>
multiVars ==
    <<mxArgs, mx_pc, mx_raised, providers_to_use_config, init_i, init_len, proc_i,
      extracted_text, call_failed, mxPdf, all_results, mx_outputs>>

gdArgs ==
    <<project_id_set, processor_id_set, gd_file_exists, gd_suffix, output_file_given>>
gdocaiVars == <<gdArgs, gd_pc, file_mime_type, gd_submitted, document_data, gd_output>>

mtArgs == <<api_key_set, mt_suffix, mt_file_readable, out_given, images_given>>
mtextVars == <<mtArgs, mt_pc, mt_raised, mt_events>>

\* The variables of the three other scripts.
otherScripts == <<multiVars, gdocaiVars, mtextVars>>

vars == <<extractorVars, multiVars, gdocaiVars, mtextVars>>

cfgVars ==
    <<api_choice, force_pdf_to_images, creds, input_kind, dir_entries, client,
      files_to_process>>
resVars == <<text_content, json_response>>
pageVars == <<npages, page_num, page_text, page_json, all_text_parts, all_json_responses_parts>>
azVars == <<caller, script, checks, waits, read_status>>
nameVars == <<now, out_stem>>

\* What the credentials file can be like when the client is built.
CredsStates == {"ok", "missing", "unreadable", "no_keys"}

\* An initialized SDK client.
ClientObject == [tag |-> "client"]

\* get_google_vision_client: the client, or None on any exception.
GetGoogleVisionClient(c) == IF c = "ok" THEN ClientObject ELSE None

\* get_azure_vision_client: the client, or None on FileNotFoundError (no
\* file), KeyError (no 'endpoint' or 'key') and on any other exception.
GetAzureVisionClient(c) ==
    CASE c = "ok" -> ClientObject
      [] c = "missing" -> None
      [] c = "no_keys" -> None
      [] OTHER -> None

\* A main that goes on without a client.
ExitsOnClient_Never(c) == FALSE

\* "if not google_client: ...; return" / "if not azure_client: ...; return"
ExitsOnClient(c) == c = None

\* Every variable of process_file, ocr_azure_read_stream and save_results
\* before the first file.
Idle ==
    /\ raised = "none"
    /\ strategy = "none"
    /\ text_content = None
    /\ json_response = None
    /\ npages = 0
    /\ page_num = 0
    /\ page_text = None
    /\ page_json = None
    /\ all_text_parts = <<>>
    /\ all_json_responses_parts = <<>>
    /\ caller = "none"
    /\ script = <<>>
    /\ checks = 0
    /\ waits = 0
    /\ read_status = "none"
    /\ now = 0
    /\ provider_failed = FALSE

\* multi_extractor.py is not running.
MultiOff ==
    /\ args_provider = "None"
    /\ args_model = None
    /\ env_keys = {}
    /\ init_fails = {}
    /\ mx_file_exists = FALSE
    /\ mx_file_kind = "other"
    /\ mx_pc = "off"
    /\ mx_raised = "none"
    /\ providers_to_use_config = <<>>
    /\ init_i = 0
    /\ init_len = 0
    /\ proc_i = 0
    /\ extracted_text = None
    /\ call_failed = FALSE
    /\ page_pil_images = 0
    /\ pdf_i = 0
    /\ all_page_texts = <<>>
    /\ all_results = <<>>
    /\ mx_outputs = <<>>

\* gdocai.py is not running.
GdocaiOff ==
    /\ gd_pc = "off"
    /\ project_id_set = FALSE
    /\ processor_id_set = FALSE
    /\ gd_file_exists = FALSE
    /\ gd_suffix = <<>>
    /\ output_file_given = FALSE
    /\ file_mime_type = None
    /\ gd_submitted = FALSE
    /\ document_data = "None"
    /\ gd_output = "absent"

\* mtext_extractor.py is not running.
MtextOff ==
    /\ mt_pc = "off"
    /\ api_key_set = FALSE
    /\ mt_suffix = <<>>
    /\ mt_file_readable = FALSE
    /\ out_given = FALSE
    /\ images_given = FALSE
    /\ mt_raised = "none"
    /\ mt_events = <<>>

\* azure-gcp-vision-extractor.py is not running.
ExtractorOff ==
    /\ api_choice = "google"
    /\ force_pdf_to_images = FALSE
    /\ creds = "ok"
    /\ input_kind = "invalid"
    /\ dir_entries = <<>>
    /\ client = None
    /\ files_to_process = <<>>
    /\ idx = 0
    /\ pc = "off"
    /\ out_stem = <<>>
    /\ outputs = <<>>
    /\ Idle

\* main after parse_args and ensure_dir: nothing initialized, nothing
\* scanned.  A file input_path names one file, a directory any files, an
\* invalid path none.
Init ==
    /\ api_choice \in {"google", "azure"}
    /\ force_pdf_to_images \in BOOLEAN
    /\ creds \in CredsStates
    /\ input_kind \in {"file", "dir", "invalid"}
    /\ dir_entries \in
            CASE input_kind = "file" -> [1..1 -> RunPaths]
              [] input_kind = "dir" -> SeqsUpTo(RunPaths, MaxFiles)
              [] OTHER -> {<<>>}
    /\ client = None
    /\ files_to_process = <<>>
    /\ idx = 0
    /\ pc = "start"
    /\ out_stem = <<>>
    /\ outputs = <<>>
    /\ Idle
    /\ MultiOff
    /\ GdocaiOff
    /\ MtextOff

\* One call of process_file on a path of any suffix, with a client.
InitProcessFile ==
    /\ api_choice \in {"google", "azure"}
    /\ force_pdf_to_images \in BOOLEAN
    /\ creds = "ok"
    /\ input_kind = "file"
    /\ dir_entries \in {<<Path("a", e)>> : e \in CallSuffixes}
    /\ client = ClientObject
    /\ files_to_process = dir_entries
    /\ idx = 1
    /\ pc = "process_file"
    /\ out_stem = <<None>>
    /\ outputs = <<[txt |-> "absent", json |-> "absent"]>>
    /\ Idle
    /\ MultiOff
    /\ GdocaiOff
    /\ MtextOff

\* --------------------------------------------------------------------- main

\* The client of the chosen API is built; main returns if there is none.
ClientInit ==
    /\ pc = "start"
    /\ client' = IF api_choice = "google" THEN GetGoogleVisionClient(creds)
                  ELSE GetAzureVisionClient(creds)
    /\ pc' = IF ExitsOnClient(client') THEN "exit_client_init" ELSE "scan"
    /\ UNCHANGED <<otherScripts, api_choice, force_pdf_to_images, creds, input_kind,
                   dir_entries, files_to_process, nameVars, strategy, idx, raised, resVars,
                   pageVars, azVars, outputs, provider_failed>>

\* The files main keeps of those found at input_path, in the order found.
FilesToProcess(entries) == SelectSeq(entries, MainAccepts)

\* input_path is resolved into files_to_process: the file itself or the
\* files of the directory, filtered by suffix.  main returns on a path that
\* is neither and on an empty list.
ScanInput ==
    /\ pc = "scan"
    /\ files_to_process' =
            IF input_kind = "invalid" THEN <<>> ELSE FilesToProcess(dir_entries)
    /\ pc' = IF input_kind = "invalid" THEN "exit_invalid_path"
             ELSE IF files_to_process' = <<>> THEN "exit_no_files"
             ELSE "main_loop"
    /\ outputs' = [i \in 1..Len(files_to_process') |->
                        [txt |-> "absent", json |-> "absent"]]
    /\ out_stem' = [i \in 1..Len(files_to_process') |-> None]
    /\ UNCHANGED <<otherScripts, api_choice, force_pdf_to_images, creds, input_kind,
                   dir_entries, client, now, strategy, idx, raised, resVars, pageVars, azVars,
                   provider_failed>>

\* main's for loop: the next file enters process_file (which starts with
\* text_content = json_response = None), or the loop ends.
MainLoop ==
    /\ pc = "main_loop"
    /\ IF idx < Len(files_to_process)
       THEN /\ idx' = idx + 1
            /\ pc' = "process_file"
       ELSE /\ idx' = idx
            /\ pc' = "complete"
    /\ text_content' = None
    /\ json_response' = None
    /\ npages' = 0
    /\ page_num' = 0
    /\ page_text' = None
    /\ page_json' = None
    /\ all_text_parts' = <<>>
    /\ all_json_responses_parts' = <<>>
    /\ provider_failed' = FALSE
    /\ strategy' = "none"
    /\ UNCHANGED <<otherScripts, cfgVars, nameVars, raised, azVars, outputs>>

\* An exception no handler catches leaves process_file and main.
Uncaught(where) ==
    /\ pc' = "crashed"
    /\ raised' = where

\* ------------------------------------------------------------- process_file

\* A direct branch taken for every PDF, whatever the flag.
IsDirectPdf_IgnoresFlag == is_pdf(files_to_process[idx])

\* "if is_pdf and not force_pdf_to_images"
IsDirectPdf == is_pdf(files_to_process[idx]) /\ ~force_pdf_to_images
\* "elif is_pdf and force_pdf_to_images"
IsForcedPdf == is_pdf(files_to_process[idx]) /\ force_pdf_to_images
\* "elif is_image"
IsImage ==
    /\ ~is_pdf(files_to_process[idx])
    /\ is_image(files_to_process[idx])
\* "if not (is_pdf or is_image)"
IsUnsupported ==
    ~(is_pdf(files_to_process[idx]) \/ is_image(files_to_process[idx]))

\* "Unsupported file type ... Skipping.": process_file returns at once.
ProcessUnsupported ==
    /\ pc = "process_file"
    /\ IsUnsupported
    /\ strategy' = "skipped"
    /\ pc' = "main_loop"
    /\ UNCHANGED <<otherScripts, cfgVars, nameVars, idx, raised, resVars, pageVars, azVars, outputs,
                   provider_failed>>

\* Direct PDF, Google: one call of ocr_google_pdf.
DirectPdfGoogle ==
    /\ pc = "process_file"
    /\ IsDirectPdf
    /\ api_choice = "google"
    /\ \E outcome \in GooglePdfOutcomes :
        /\ text_content' = OcrGooglePdf(outcome, idx)[1]
        /\ json_response' = OcrGooglePdf(outcome, idx)[2]
        /\ provider_failed' = (outcome.kind # "responses")
    /\ pc' = "save_check"
    /\ strategy' = "direct"
    /\ UNCHANGED <<otherScripts, cfgVars, nameVars, idx, raised, pageVars, azVars, outputs>>

\* Direct PDF, Azure: open(file_path_str, "rb") outside any try, then
\* ocr_azure_read_stream on the open file.
DirectPdfAzure ==
    /\ pc = "process_file"
    /\ IsDirectPdf
    /\ api_choice = "azure"
    /\ \/ /\ Uncaught("open_pdf")
          /\ UNCHANGED caller
       \/ /\ pc' = "azure_submit"
          /\ caller' = "direct"
          /\ UNCHANGED raised
    /\ strategy' = "direct"
    /\ UNCHANGED <<otherScripts, cfgVars, nameVars, idx, resVars, pageVars, script, checks, waits,
                   read_status, outputs, provider_failed>>

\* A conversion whose exception is not caught in process_file.
ForcedPdfConvert_Raises ==
    /\ pc = "process_file"
    /\ IsForcedPdf
    /\ \/ /\ Uncaught("convert_from_path")
          /\ UNCHANGED npages
       \/ /\ npages' \in 0..MaxPages
          /\ pc' = "page_loop"
          /\ UNCHANGED raised
    /\ page_num' = 0
    /\ all_text_parts' = <<>>
    /\ all_json_responses_parts' = <<>>
    /\ strategy' = "per_page"
    /\ UNCHANGED <<otherScripts, cfgVars, nameVars, idx, resVars, page_text, page_json, azVars,
                   outputs, provider_failed>>

\* Forced per-page PDF: convert_from_path inside the try; its exception
\* ends process_file for this file.
ForcedPdfConvert ==
    /\ pc = "process_file"
    /\ IsForcedPdf
    /\ \/ /\ pc' = "main_loop"
          /\ UNCHANGED npages
       \/ /\ npages' \in 0..MaxPages
          /\ pc' = "page_loop"
    /\ page_num' = 0
    /\ all_text_parts' = <<>>
    /\ all_json_responses_parts' = <<>>
    /\ strategy' = "per_page"
    /\ UNCHANGED <<otherScripts, cfgVars, nameVars, idx, raised, resVars, page_text, page_json, azVars,
                   outputs, provider_failed>>

\* Image file: open and read inside the try; an exception there ends
\* process_file for this file.
ImageRead ==
    /\ pc = "process_file"
    /\ IsImage
    /\ \/ pc' = "main_loop"
       \/ pc' = "image_ocr"
    /\ strategy' = "single_image"
    /\ UNCHANGED <<otherScripts, cfgVars, nameVars, idx, raised, resVars, pageVars, azVars, outputs,
                   provider_failed>>

\* Image file, Google: one call of ocr_google_image_bytes.
ImageGoogle ==
    /\ pc = "image_ocr"
    /\ api_choice = "google"
    /\ \E outcome \in GoogleImageOutcomes :
        /\ text_content' = OcrGoogleImageBytes(outcome)[1]
        /\ json_response' = OcrGoogleImageBytes(outcome)[2]
        /\ provider_failed' = (outcome.kind = "exception")
    /\ pc' = "save_check"
    /\ UNCHANGED <<otherScripts, cfgVars, nameVars, strategy, idx, raised, pageVars, azVars, outputs>>

\* Image file, Azure: ocr_azure_read_stream on the bytes read.
ImageAzure ==
    /\ pc = "image_ocr"
    /\ api_choice = "azure"
    /\ pc' = "azure_submit"
    /\ caller' = "image"
    /\ UNCHANGED <<otherScripts, cfgVars, nameVars, strategy, idx, raised, resVars, pageVars, script, checks,
                   waits, read_status, outputs, provider_failed>>

\* Forced per-page loop, Google: the next page goes to
\* ocr_google_image_bytes.
PageGoogle ==
    /\ pc = "page_loop"
    /\ page_num < npages
    /\ api_choice = "google"
    /\ page_num' = page_num + 1
    /\ \E outcome \in GoogleImageOutcomes :
        /\ page_text' = OcrGoogleImageBytes(outcome)[1]
        /\ page_json' = OcrGoogleImageBytes(outcome)[2]
        /\ provider_failed' = (provider_failed \/ outcome.kind = "exception")
    /\ pc' = "page_collect"
    /\ UNCHANGED <<otherScripts, cfgVars, nameVars, strategy, idx, raised, resVars, npages, all_text_parts,
                   all_json_responses_parts, azVars, outputs>>

\* Forced per-page loop, Azure: the next page goes to ocr_azure_read_stream.
PageAzure ==
    /\ pc = "page_loop"
    /\ page_num < npages
    /\ api_choice = "azure"
    /\ page_num' = page_num + 1
    /\ page_text' = None
    /\ page_json' = None
    /\ pc' = "azure_submit"
    /\ caller' = "page"
    /\ UNCHANGED <<otherScripts, cfgVars, nameVars, strategy, idx, raised, resVars, npages, all_text_parts,
                   all_json_responses_parts, script, checks, waits,
                   read_status, outputs, provider_failed>>

\* Forced per-page loop: preparing a page (convert_pil_image_to_bytes,
\* io.BytesIO) raises; the except around the loop ends process_file for
\* this file.
PageRaises ==
    /\ pc = "page_loop"
    /\ page_num < npages
    /\ pc' = "main_loop"
    /\ UNCHANGED <<otherScripts, cfgVars, nameVars, strategy, idx, raised, resVars, pageVars, azVars, outputs,
                   provider_failed>>

\* "if page_text: all_text_parts.append(page_text)"
CollectText(parts, text) == IF Truthy(text) THEN Append(parts, text.val) ELSE parts

\* A collection that puts the newest page first.
CollectJson_Prepend(parts, num, json) ==
    IF Truthy(json) THEN <<[page |-> num, response |-> json]>> \o parts ELSE parts

\* "if page_json: all_json_responses_parts.append({page, response})"
CollectJson(parts, num, json) ==
    IF Truthy(json) THEN Append(parts, [page |-> num, response |-> json]) ELSE parts

\* The two appends that end one iteration of the forced per-page loop.
PageCollect ==
    /\ pc = "page_collect"
    /\ all_text_parts' = CollectText(all_text_parts, page_text)
    /\ all_json_responses_parts' =
            CollectJson(all_json_responses_parts, page_num, page_json)
    /\ pc' = "page_loop"
    /\ UNCHANGED <<otherScripts, cfgVars, nameVars, strategy, idx, raised, resVars, npages, page_num, page_text,
                   page_json, azVars, outputs, provider_failed>>

\* The envelope of the forced per-page branch.
ForcedEnvelope(parts, name) ==
    Dict([pages |-> parts, source_file |-> name, method |-> "pdf_converted_to_images"])

\* After the last page: the join and the envelope.
PagesJoin ==
    /\ pc = "page_loop"
    /\ page_num >= npages
    /\ text_content' = Str(ForcedJoinText(all_text_parts))
    /\ json_response' = ForcedEnvelope(all_json_responses_parts, idx)
    /\ pc' = "save_check"
    /\ UNCHANGED <<otherScripts, cfgVars, nameVars, strategy, idx, raised, pageVars, azVars, outputs,
                   provider_failed>>

\* ---------------------------------------------------- ocr_azure_read_stream

\* ocr_azure_read_stream returns ret = (text, json) to the branch of
\* process_file that called it.
AzureReturn(ret) ==
    /\ IF caller = "page"
       THEN /\ page_text' = ret[1]
            /\ page_json' = ret[2]
            /\ pc' = "page_collect"
            /\ UNCHANGED resVars
       ELSE /\ text_content' = ret[1]
            /\ json_response' = ret[2]
            /\ pc' = "save_check"
            /\ UNCHANGED <<page_text, page_json>>
    /\ provider_failed' = (provider_failed \/ ret[1] = None)
    /\ caller' = "none"
    /\ script' = <<>>
    /\ checks' = 0
    /\ waits' = 0
    /\ read_status' = "none"
    /\ UNCHANGED <<otherScripts, cfgVars, nameVars, strategy, idx, raised, npages, page_num, all_text_parts,
                   all_json_responses_parts, outputs>>

\* An except clause that hands back an empty text.
ExceptReturn_EmptyText == <<Str(<<>>), None>>

\* "except Exception as e: print(...); return None, None"
ExceptReturn == <<None, None>>

\* read_in_stream (or the seek, or the header lookup): it raises, which the
\* function's except catches, or the job is submitted and the provider's
\* answers are fixed.
AzureSubmit ==
    /\ pc = "azure_submit"
    /\ \/ AzureReturn(ExceptReturn)
       \/ /\ script' \in Scripts
          /\ checks' = 0
          /\ waits' = 0
          /\ pc' = "azure_poll"
          /\ UNCHANGED <<otherScripts, cfgVars, nameVars, strategy, idx, raised, resVars, pageVars, caller,
                         read_status, outputs, provider_failed>>

\* The status the provider answers to the next check.
NextStatus == script[Min(checks + 1, Len(script))]

\* One get_read_result call and the loop's test of its status.  The
\* counters stop counting at MaxPolls (a job that never leaves an
\* in-progress status is polled forever).
AzurePoll ==
    /\ pc = "azure_poll"
    /\ checks' = Min(checks + 1, MaxPolls)
    /\ read_status' = NextStatus
    /\ pc' = IF PollContinues(NextStatus) THEN "azure_sleep" ELSE "azure_result"
    /\ UNCHANGED <<otherScripts, cfgVars, nameVars, strategy, idx, raised, resVars, pageVars, caller, script,
                   waits, outputs, provider_failed>>

\* get_read_result raises (transport error, timeout): caught by the
\* function's except.
AzurePollRaises ==
    /\ pc = "azure_poll"
    /\ AzureReturn(ExceptReturn)

\* time.sleep(2), then back to the top of the loop.
AzureSleep ==
    /\ pc = "azure_sleep"
    /\ waits' = Min(waits + 1, MaxPolls)
    /\ pc' = "azure_poll"
    /\ UNCHANGED <<otherScripts, cfgVars, nameVars, strategy, idx, raised, resVars, pageVars, caller, script,
                   checks, read_status, outputs, provider_failed>>

\* After the loop: the result is built from the last read_result.
AzureResult ==
    /\ pc = "azure_result"
    /\ \E rr \in (IF read_status # "succeeded" THEN {<<>>}
                  ELSE IF caller = "page" THEN PageReadResults
                  ELSE AzureReadResults) :
        AzureReturn(OcrAzureResult(read_status, rr))

\* ------------------------------------------------------------- save_results

\* "if text_content is not None and json_response is not None"
HasResults(text, json) == text # None /\ json # None

\* f"{original_filename_stem}_{api_choice}_{timestamp_str}", the timestamp
\* being datetime.now() to the second.
OutputFilenameBase(stem, api, second) == <<stem, api, second>>

\* The test at the end of process_file: on results the output name is built
\* from the clock (which never runs backwards) and save_results is entered;
\* otherwise the failure is reported.
SaveCheck ==
    /\ pc = "save_check"
    /\ IF HasResults(text_content, json_response)
       THEN /\ now' \in now..MaxClock
            /\ out_stem' = [out_stem EXCEPT ![idx] =
                    OutputFilenameBase(files_to_process[idx].stem, api_choice, now')]
            /\ pc' = "save_txt"
       ELSE /\ pc' = "main_loop"
            /\ UNCHANGED nameVars
    /\ UNCHANGED <<otherScripts, cfgVars, strategy, idx, raised, resVars, pageVars, azVars, outputs,
                   provider_failed>>

\* save_results, first with block: the .txt is opened and written, or the
\* open fails (nothing on disk) or the write fails (a partial file).
SaveTxt ==
    /\ pc = "save_txt"
    /\ \/ /\ outputs' = [outputs EXCEPT ![idx].txt = "written"]
          /\ pc' = "save_json"
          /\ UNCHANGED raised
       \/ /\ \E left \in {"absent", "partial"} :
                outputs' = [outputs EXCEPT ![idx].txt = left]
          /\ Uncaught("save_txt")
    /\ UNCHANGED <<otherScripts, cfgVars, nameVars, strategy, idx, resVars, pageVars, azVars, provider_failed>>

\* save_results, second with block: the .json likewise; then process_file
\* returns.
SaveJson ==
    /\ pc = "save_json"
    /\ \/ /\ outputs' = [outputs EXCEPT ![idx].json = "written"]
          /\ pc' = "main_loop"
          /\ UNCHANGED raised
       \/ /\ \E left \in {"absent", "partial"} :
                outputs' = [outputs EXCEPT ![idx].json = left]
          /\ Uncaught("save_json")
    /\ UNCHANGED <<otherScripts, cfgVars, nameVars, strategy, idx, resVars, pageVars, azVars, provider_failed>>

\* ------------------------------------------------------------ specification

Next ==
    \/ ClientInit
    \/ ScanInput
    \/ MainLoop
    \/ DirectPdfGoogle
    \/ DirectPdfAzure
    \/ ForcedPdfConvert
    \/ ImageRead
    \/ ImageGoogle
    \/ ImageAzure
    \/ PageGoogle
    \/ PageAzure
    \/ PageRaises
    \/ PageCollect
    \/ PagesJoin
    \/ AzureSubmit
    \/ AzurePoll
    \/ AzurePollRaises
    \/ AzureSleep
    \/ AzureResult
    \/ SaveCheck
    \/ SaveTxt
    \/ SaveJson

Spec == Init /\ [][Next]_vars

\* The interpreter runs the script to its end: no step that can be taken is
\* put off forever.
FairSpec == Spec /\ WF_vars(Next)

\* process_file called on its own, on a path main did not filter.
NextProcessFile ==
    \/ ProcessUnsupported
    \/ MainLoop
    \/ DirectPdfGoogle
    \/ DirectPdfAzure
    \/ ForcedPdfConvert
    \/ ImageRead
    \/ ImageGoogle
    \/ ImageAzure
    \/ PageGoogle
    \/ PageAzure
    \/ PageRaises
    \/ PageCollect
    \/ PagesJoin
    \/ AzureSubmit
    \/ AzurePoll
    \/ AzurePollRaises
    \/ AzureSleep
    \/ AzureResult
    \/ SaveCheck
    \/ SaveTxt
    \/ SaveJson

ProcessFileSpec == InitProcessFile /\ [][NextProcessFile]_vars

\* ---------------------------------------------------------- multi_extractor

\* The keys of PROVIDERS, in the order of the dict.
ProviderOrder == <<"gemini", "openai", "anthropic">>
Providers == {ProviderOrder[i] : i \in 1..Len(ProviderOrder)}

\* PROVIDERS[name]["default_model"]
DefaultModel(name) ==
    CASE name = "gemini" -> Str(<<"gemini-2.0-flash">>)
      [] name = "openai" -> Str(<<"gpt-4o">>)
      [] name = "anthropic" -> Str(<<"claude-3-5-sonnet-20241022">>)

\* The values of --model: not given, the empty string, a model name.
ModelArgs == {None, Str(<<>>), Str(<<"m">>)}

\* A piece of a text of multi_extractor: a provider's text of a page, one
\* of the script's fixed messages, a page header, a line break.
Tok(kind, who, n) == [kind |-> kind, who |-> who, n |-> n]

\* One item of providers_to_use_config.
ConfigItem(name, model) ==
    [name |-> name, model |-> model, client_or_model_obj |-> None]

\* The dict after "if args.provider:" with the key found.
SpecifiedConfig(name, model_arg) ==
    <<ConfigItem(name, IF Truthy(model_arg) THEN model_arg ELSE DefaultModel(name))>>

\* active_auto_providers: the providers of PROVIDERS whose key is set.
ActiveAutoProviders(keys) == SelectSeq(ProviderOrder, LAMBDA n : n \in keys)

\* A --model that is taken whatever the number of detected providers.
AutoUsesModelArg_Always(model_arg, active) == Truthy(model_arg)

\* "if args.model: if len(active_auto_providers) == 1"
AutoUsesModelArg(model_arg, active) == Truthy(model_arg) /\ Len(active) = 1

\* The dict after auto-detection and the handling of --model.
AutoDetectedConfig(keys, model_arg) ==
    LET active == ActiveAutoProviders(keys)
    IN  [i \in 1..Len(active) |->
            ConfigItem(active[i],
                       IF AutoUsesModelArg(model_arg, active) THEN model_arg
                       ELSE DefaultModel(active[i]))]

\* Everything outside multi_extractor.py.
notMulti == <<extractorVars, gdocaiVars, mtextVars>>

\* The script after parse_args.
MultiInit ==
    /\ ExtractorOff
    /\ GdocaiOff
    /\ MtextOff
    /\ args_provider \in {"None"} \cup Providers
    /\ args_model \in ModelArgs
    /\ env_keys \in SUBSET Providers
    /\ init_fails \in SUBSET Providers
    /\ mx_file_exists \in BOOLEAN
    /\ mx_file_kind \in {"image", "pdf", "other"}
    /\ mx_pc = "select"
    /\ mx_raised = "none"
    /\ providers_to_use_config = <<>>
    /\ init_i = 0
    /\ init_len = 0
    /\ proc_i = 0
    /\ extracted_text = None
    /\ call_failed = FALSE
    /\ page_pil_images = 0
    /\ pdf_i = 0
    /\ all_page_texts = <<>>
    /\ all_results = <<>>
    /\ mx_outputs = <<>>

\* "Determine active providers and models to use": the provider given, or
\* those detected; exit(1) when the key of the one given is missing or no
\* key is found.
SelectProviders ==
    /\ mx_pc = "select"
    /\ IF args_provider # "None"
       THEN IF args_provider \in env_keys
            THEN /\ providers_to_use_config' = SpecifiedConfig(args_provider, args_model)
                 /\ mx_pc' = "init_loop"
            ELSE /\ providers_to_use_config' = <<>>
                 /\ mx_pc' = "exit_no_api_key"
       ELSE IF ActiveAutoProviders(env_keys) # <<>>
            THEN /\ providers_to_use_config' = AutoDetectedConfig(env_keys, args_model)
                 /\ mx_pc' = "init_loop"
            ELSE /\ providers_to_use_config' = <<>>
                 /\ mx_pc' = "exit_no_api_keys"
    /\ init_i' = 0
    /\ init_len' = Len(providers_to_use_config')
    /\ UNCHANGED <<notMulti, mxArgs, mx_raised, proc_i, extracted_text, call_failed,
                   mxPdf, all_results, mx_outputs>>

\* providers_to_use_config.pop(name)
Pop(config, name) == SelectSeq(config, LAMBDA item : item.name # name)

\* The initialization loop asks the dict iterator for its next item after
\* the dict has changed size: RuntimeError, outside the loop's try.
InitDictChanged ==
    /\ mx_pc = "init_loop"
    /\ Len(providers_to_use_config) # init_len
    /\ mx_pc' = "crashed"
    /\ mx_raised' = "RuntimeError"
    /\ UNCHANGED <<notMulti, mxArgs, providers_to_use_config, init_i, init_len, proc_i,
                   extracted_text, call_failed, mxPdf, all_results, mx_outputs>>

\* One iteration of the initialization loop: the client or model of the
\* next provider is built and stored, or building it raises and the except
\* clause pops the provider from the dict being iterated.
InitProvider ==
    /\ mx_pc = "init_loop"
    /\ Len(providers_to_use_config) = init_len
    /\ init_i < init_len
    /\ init_i' = init_i + 1
    /\ LET name == providers_to_use_config[init_i + 1].name
       IN  providers_to_use_config' =
                IF name \in init_fails
                THEN Pop(providers_to_use_config, name)
                ELSE [providers_to_use_config EXCEPT
                        ![init_i + 1].client_or_model_obj = ClientObject]
    /\ UNCHANGED <<notMulti, mxArgs, mx_pc, mx_raised, init_len, proc_i, extracted_text,
                   call_failed, mxPdf, all_results, mx_outputs>>

\* The iterator is exhausted: "if not providers_to_use_config: ... exit(1)".
InitDone ==
    /\ mx_pc = "init_loop"
    /\ Len(providers_to_use_config) = init_len
    /\ init_i = init_len
    /\ mx_pc' = IF providers_to_use_config = <<>> THEN "exit_no_providers"
                ELSE "check_file"
    /\ UNCHANGED <<notMulti, mxArgs, mx_raised, providers_to_use_config, init_i,
                   init_len, proc_i, extracted_text, call_failed, mxPdf, all_results,
                   mx_outputs>>

\* "if not os.path.exists(args.file_path): ... exit(1)"
CheckFile ==
    /\ mx_pc = "check_file"
    /\ mx_pc' = IF mx_file_exists THEN "process_loop" ELSE "exit_file_not_found"
    /\ UNCHANGED <<notMulti, mxArgs, mx_raised, providers_to_use_config, init_i,
                   init_len, proc_i, extracted_text, call_failed, mxPdf, all_results,
                   mx_outputs>>

\* The head of the processing loop: the next provider, with
\* extracted_text = "", or the end of the loop.
ProcessNext ==
    /\ mx_pc = "process_loop"
    /\ IF proc_i < Len(providers_to_use_config)
       THEN /\ proc_i' = proc_i + 1
            /\ mx_pc' = "dispatch"
       ELSE /\ proc_i' = proc_i
            /\ mx_pc' = "complete"
    /\ extracted_text' = Str(<<>>)
    /\ call_failed' = FALSE
    /\ page_pil_images' = 0
    /\ pdf_i' = 0
    /\ all_page_texts' = <<>>
    /\ UNCHANGED <<notMulti, mxArgs, mx_raised, providers_to_use_config, init_i,
                   init_len, all_results, mx_outputs>>

\* provider_name of the current iteration.
provider_name == providers_to_use_config[proc_i].name

\* What one call of a provider can do: answer with text, answer without
\* any, raise.
ProviderOutcomes == {"text", "empty", "exception"}

\* extract_text_gemini / _openai / _anthropic: the stripped text, "No text
\* found (...)." or "... API Error: ...", always a str.
ExtractText(name, outcome, page) ==
    CASE outcome = "text" -> <<Tok("text", name, page)>>
      [] outcome = "empty" -> <<Tok("No text found", name, 0)>>
      [] outcome = "exception" -> <<Tok("API Error", name, 0)>>

\* What process_image_file_with_provider can meet: no file, another error
\* on reading it, or a provider call.
ImageOutcomes == {"not_found", "read_error"} \cup ProviderOutcomes

\* process_image_file_with_provider: always a str.
ProcessImageFile(name, outcome) ==
    CASE outcome = "not_found" -> <<Tok("Error: Image file not found", "", 0)>>
      [] outcome = "read_error" -> <<Tok("Error processing image file", name, 0)>>
      [] OTHER -> ExtractText(name, outcome, 1)

\* Image file: process_image_file_with_provider.
ProcessImage ==
    /\ mx_pc = "dispatch"
    /\ mx_file_kind = "image"
    /\ \E outcome \in ImageOutcomes :
        /\ extracted_text' = Str(ProcessImageFile(provider_name, outcome))
        /\ call_failed' = (outcome \in {"not_found", "read_error", "exception"})
    /\ mx_pc' = "save"
    /\ UNCHANGED <<notMulti, mxArgs, mx_raised, providers_to_use_config, init_i,
                   init_len, proc_i, mxPdf, all_results, mx_outputs>>

\* PDF file: convert_from_path raises (FileNotFoundError or another
\* exception), yields no page, or yields the page images.
ProcessPdfConvert ==
    /\ mx_pc = "dispatch"
    /\ mx_file_kind = "pdf"
    /\ \/ /\ \E msg \in {Tok("Error: PDF file not found", "", 0),
                          Tok("Error processing PDF", provider_name, 0),
                          Tok("Could not convert PDF to images.", "", 0)} :
                extracted_text' = Str(<<msg>>)
          /\ call_failed' = TRUE
          /\ mx_pc' = "save"
          /\ UNCHANGED page_pil_images
       \/ /\ page_pil_images' \in 1..MaxPages
          /\ mx_pc' = "pdf_page"
          /\ UNCHANGED <<extracted_text, call_failed>>
    /\ UNCHANGED <<notMulti, mxArgs, mx_raised, providers_to_use_config, init_i,
                   init_len, proc_i, pdf_i, all_page_texts, all_results, mx_outputs>>

\* Any other extension: the message goes to all_results and the loop
\* continues without a file.
SkipUnsupportedType ==
    /\ mx_pc = "dispatch"
    /\ mx_file_kind = "other"
    /\ all_results' = Append(all_results,
            [name |-> provider_name, text |-> Str(<<Tok("Unsupported file type", "", 0)>>)])
    /\ mx_pc' = "process_loop"
    /\ UNCHANGED <<notMulti, mxArgs, mx_raised, providers_to_use_config, init_i,
                   init_len, proc_i, extracted_text, call_failed, mxPdf, mx_outputs>>

\* The parameters of pil_to_image_bytes(pil_image, image_format='PNG').
PilToImageBytesParams == {"pil_image", "image_format"}

\* The keyword process_pdf_file_with_provider passes to it:
\* pil_to_image_bytes(page_pil_image, format=pdf_page_img_fmt).
PdfPageCallKeywords == {"format"}

\* A call with a keyword the function does not have raises TypeError.
CallRaisesTypeError(params, keywords) == ~(keywords \subseteq params)

\* f"--- Page {i + 1} ---\n{page_text}"
Section(i, text) ==
    <<Tok("--- Page", "", i), Tok("newline", "", 0)>> \o text

\* One iteration of the page loop: for gemini the page image goes to the
\* model; for openai and anthropic it is first turned into bytes by
\* pil_to_image_bytes, whose exception ends the function with its message.
PdfPage ==
    /\ mx_pc = "pdf_page"
    /\ pdf_i < page_pil_images
    /\ IF provider_name # "gemini"
            /\ CallRaisesTypeError(PilToImageBytesParams, PdfPageCallKeywords)
       THEN /\ extracted_text' = Str(<<Tok("Error processing PDF", provider_name, 0)>>)
            /\ call_failed' = TRUE
            /\ mx_pc' = "save"
            /\ UNCHANGED <<pdf_i, all_page_texts>>
       ELSE /\ \E outcome \in ProviderOutcomes :
                /\ all_page_texts' = Append(all_page_texts,
                        Section(pdf_i + 1, ExtractText(provider_name, outcome, pdf_i + 1)))
                /\ call_failed' = (call_failed \/ outcome = "exception")
            /\ pdf_i' = pdf_i + 1
            /\ UNCHANGED <<extracted_text, mx_pc>>
    /\ UNCHANGED <<notMulti, mxArgs, mx_raised, providers_to_use_config, init_i,
                   init_len, proc_i, page_pil_images, all_results, mx_outputs>>

\* After the last page: "\n\n".join(all_page_texts).
PdfJoin ==
    /\ mx_pc = "pdf_page"
    /\ pdf_i = page_pil_images
    /\ extracted_text' = Str(Join(<<Tok("blank line", "", 0)>>, all_page_texts))
    /\ mx_pc' = "save"
    /\ UNCHANGED <<notMulti, mxArgs, mx_raised, providers_to_use_config, init_i,
                   init_len, proc_i, call_failed, mxPdf, all_results, mx_outputs>>

\* A save whose exception is not caught.
SaveOutput_Raises ==
    /\ mx_pc = "save"
    /\ all_results' = Append(all_results, [name |-> provider_name, text |-> extracted_text])
    /\ \/ /\ mx_outputs' = Append(mx_outputs,
                    [provider |-> provider_name, content |-> extracted_text,
                     failed |-> call_failed])
          /\ mx_pc' = "process_loop"
          /\ UNCHANGED mx_raised
       \/ /\ mx_outputs' = mx_outputs
          /\ mx_pc' = "crashed"
          /\ mx_raised' = "OSError"
    /\ UNCHANGED <<notMulti, mxArgs, providers_to_use_config, init_i,
                   init_len, proc_i, extracted_text, call_failed, mxPdf>>

\* all_results[provider_name] = extracted_text, then the output file is
\* written, or writing it raises and the except clause reports it.
SaveOutput ==
    /\ mx_pc = "save"
    /\ all_results' = Append(all_results, [name |-> provider_name, text |-> extracted_text])
    /\ \/ mx_outputs' = Append(mx_outputs,
                [provider |-> provider_name, content |-> extracted_text,
                 failed |-> call_failed])
       \/ mx_outputs' = mx_outputs
    /\ mx_pc' = "process_loop"
    /\ UNCHANGED <<notMulti, mxArgs, mx_raised, providers_to_use_config, init_i,
                   init_len, proc_i, extracted_text, call_failed, mxPdf>>

MultiNext ==
    \/ SelectProviders
    \/ InitDictChanged
    \/ InitProvider
    \/ InitDone
    \/ CheckFile
    \/ ProcessNext
    \/ ProcessImage
    \/ ProcessPdfConvert
    \/ SkipUnsupportedType
    \/ PdfPage
    \/ PdfJoin
    \/ SaveOutput

MultiSpec == MultiInit /\ [][MultiNext]_vars

\* The interpreter runs the script to its end.
FairMultiSpec == MultiSpec /\ WF_vars(MultiNext)

\* ------------------------------------------------------------------ gdocai.py

\* A MIME type "major/sub".
Mime(major, sub) == [tag |-> "mime", major |-> major, sub |-> sub]

\* SUPPORTED_MIME_TYPES
SUPPORTED_MIME_TYPES ==
    (<<".", "p", "d", "f">> :> Mime("application", "pdf")) @@
    (<<".", "j", "p", "g">> :> Mime("image", "jpeg")) @@
    (<<".", "j", "p", "e", "g">> :> Mime("image", "jpeg")) @@
    (<<".", "t", "i", "f", "f">> :> Mime("image", "tiff")) @@
    (<<".", "t", "i", "f">> :> Mime("image", "tiff")) @@
    (<<".", "g", "i", "f">> :> Mime("image", "gif")) @@
    (<<".", "p", "n", "g">> :> Mime("image", "png")) @@
    (<<".", "w", "e", "b", "p">> :> Mime("image", "webp")) @@
    (<<".", "b", "m", "p">> :> Mime("image", "bmp"))

\* The suffixes of the files the script is run on: the supported ones, one in
\* capitals, other document, archive, text and audio files, an unknown suffix
\* and no suffix.
GdSuffixes ==
    DOMAIN SUPPORTED_MIME_TYPES \cup
    {<<".", "P", "D", "F">>, <<".", "d", "o", "c", "x">>, <<".", "d", "o", "c">>,
     <<".", "z", "i", "p">>, <<".", "s", "v", "g">>, <<".", "t", "x", "t">>,
     <<".", "m", "p", "3">>, <<".", "q", "q">>, <<>>}

\* mimetypes.guess_type(file_path)[0] for a path with this suffix: the type of
\* the lower-cased suffix in the standard library's table. ".docx" is not in
\* the built-in table and is known only where the system's mime.types lists it.
GuessTypes(suffix) ==
    LET ext == Lower(suffix) IN
    IF ext \in DOMAIN SUPPORTED_MIME_TYPES THEN {SUPPORTED_MIME_TYPES[ext]}
    ELSE IF ext = <<".", "d", "o", "c">> THEN {Mime("application", "msword")}
    ELSE IF ext = <<".", "d", "o", "c", "x">> THEN {Mime("application", "vnd.openxmlformats-officedocument.wordprocessingml.document"), None}
    ELSE IF ext = <<".", "z", "i", "p">> THEN {Mime("application", "zip")}
    ELSE IF ext = <<".", "s", "v", "g">> THEN {Mime("image", "svg+xml")}
    ELSE IF ext = <<".", "t", "x", "t">> THEN {Mime("text", "plain")}
    ELSE IF ext = <<".", "m", "p", "3">> THEN {Mime("audio", "mpeg")}
    ELSE {None}

\* get_mime_type(file_path), given what mimetypes.guess_type answers.
get_mime_type(suffix, guess) ==
    LET extension == Lower(suffix) IN
    IF extension \in DOMAIN SUPPORTED_MIME_TYPES
    THEN SUPPORTED_MIME_TYPES[extension]
    ELSE IF guess # None /\ guess.major \in {"image", "application"}
         THEN guess
         ELSE None

notGdocai == <<extractorVars, multiVars, mtextVars>>

\* gdocai.py starts: the command line is parsed.
GdocInit ==
    /\ ExtractorOff
    /\ MultiOff
    /\ MtextOff
    /\ gd_pc = "check_project"
    /\ project_id_set \in BOOLEAN
    /\ processor_id_set \in BOOLEAN
    /\ gd_file_exists \in BOOLEAN
    /\ gd_suffix \in GdSuffixes
    /\ output_file_given \in BOOLEAN
    /\ file_mime_type = None
    /\ gd_submitted = FALSE
    /\ document_data = "None"
    /\ gd_output = "absent"

\* if args.project_id == "your-gcp-project-id" or not args.project_id: exit(1)
CheckProjectId ==
    /\ gd_pc = "check_project"
    /\ gd_pc' = IF project_id_set THEN "check_processor" ELSE "exit_1"
    /\ UNCHANGED <<notGdocai, gdArgs, file_mime_type, gd_submitted, document_data, gd_output>>

\* if args.processor_id == "your-processor-id" or not args.processor_id: exit(1)
CheckProcessorId ==
    /\ gd_pc = "check_processor"
    /\ gd_pc' = IF processor_id_set THEN "check_file" ELSE "exit_1"
    /\ UNCHANGED <<notGdocai, gdArgs, file_mime_type, gd_submitted, document_data, gd_output>>

\* if not os.path.exists(args.file_path): exit(1)
CheckFileExists ==
    /\ gd_pc = "check_file"
    /\ gd_pc' = IF gd_file_exists THEN "mime" ELSE "exit_1"
    /\ UNCHANGED <<notGdocai, gdArgs, file_mime_type, gd_submitted, document_data, gd_output>>

\* file_mime_type = get_mime_type(args.file_path); exit(1) when it is None.
GetMimeType ==
    /\ gd_pc = "mime"
    /\ \E guess \in GuessTypes(gd_suffix) :
          /\ file_mime_type' = get_mime_type(gd_suffix, guess)
          /\ gd_pc' = IF file_mime_type' # None THEN "process" ELSE "exit_1"
    /\ UNCHANGED <<notGdocai, gdArgs, gd_submitted, document_data, gd_output>>

\* What process_document_sample can meet: the client cannot be created or the
\* file cannot be read (both outside the try), the processor answers with a
\* document with or without text, or process_document raises.
DocumentOutcomes ==
    {"client_error", "open_error", "text", "no_text", "InvalidArgument", "Exception"}

\* document_data = process_document_sample(...)
ProcessDocumentSample ==
    /\ gd_pc = "process"
    /\ \E outcome \in DocumentOutcomes :
          IF outcome \in {"client_error", "open_error"}
          THEN /\ gd_pc' = "crashed"
               /\ UNCHANGED <<gd_submitted, document_data>>
          ELSE /\ gd_submitted' = TRUE
               /\ document_data' = IF outcome \in {"text", "no_text"} THEN outcome ELSE "None"
               /\ gd_pc' = "report"
    /\ UNCHANGED <<notGdocai, gdArgs, file_mime_type, gd_output>>

\* The report of the result, and the text written to --output_file.
ReportDocument ==
    /\ gd_pc = "report"
    /\ IF document_data = "text" /\ output_file_given
       THEN \E saved \in BOOLEAN :
               gd_output' = IF saved THEN "text" ELSE "absent"
       ELSE UNCHANGED gd_output
    /\ gd_pc' = "complete"
    /\ UNCHANGED <<notGdocai, gdArgs, file_mime_type, gd_submitted, document_data>>

GdocNext ==
    \/ CheckProjectId
    \/ CheckProcessorId
    \/ CheckFileExists
    \/ GetMimeType
    \/ ProcessDocumentSample
    \/ ReportDocument

GdocSpec == GdocInit /\ [][GdocNext]_vars

\* --------------------------------------------------------- mtext_extractor.py

\* The keys of MIME_MAP.
MIME_MAP ==
    {<<".", "p", "d", "f">>, <<".", "p", "n", "g">>, <<".", "j", "p", "g">>,
     <<".", "j", "p", "e", "g">>, <<".", "w", "e", "b", "p">>, <<".", "g", "i", "f">>,
     <<".", "t", "i", "f">>, <<".", "t", "i", "f", "f">>}

\* The suffixes of the files the script is run on.
MtSuffixes ==
    MIME_MAP \cup
    {<<".", "P", "D", "F">>, <<".", "P", "n", "g">>, <<".", "b", "m", "p">>,
     <<".", "d", "o", "c", "x">>, <<".", "t", "x", "t">>, <<>>}

\* A check of the extension that lets every file through.
UnsupportedExtension_Never(file_suffix) == FALSE

\* suffix = args.file.suffix.lower(); suffix not in MIME_MAP
UnsupportedExtension(file_suffix) == Lower(file_suffix) \notin MIME_MAP

notMtext == <<extractorVars, multiVars, gdocaiVars>>

\* mtext_extractor.py starts: the command line is parsed.
MtextInit ==
    /\ ExtractorOff
    /\ MultiOff
    /\ GdocaiOff
    /\ mt_pc = "env"
    /\ api_key_set \in BOOLEAN
    /\ mt_suffix \in MtSuffixes
    /\ mt_file_readable \in BOOLEAN
    /\ out_given \in BOOLEAN
    /\ images_given \in BOOLEAN
    /\ mt_raised = "none"
    /\ mt_events = <<>>

\* api_key = os.getenv("MISTRAL_API_KEY"); the client is created with it.
CheckApiKey ==
    /\ mt_pc = "env"
    /\ IF api_key_set
       THEN /\ mt_pc' = "mime"
            /\ UNCHANGED mt_raised
       ELSE /\ mt_pc' = "crashed"
            /\ mt_raised' = "RuntimeError"
    /\ UNCHANGED <<notMtext, mtArgs, mt_events>>

\* if suffix not in MIME_MAP: raise ValueError
CheckSuffix ==
    /\ mt_pc = "mime"
    /\ IF UnsupportedExtension(mt_suffix)
       THEN /\ mt_pc' = "crashed"
            /\ mt_raised' = "ValueError"
       ELSE /\ mt_pc' = "read"
            /\ UNCHANGED mt_raised
    /\ UNCHANGED <<notMtext, mtArgs, mt_events>>

\* The input file is read and encoded; the payload and the default output
\* path are computed from it.
ReadFile ==
    /\ mt_pc = "read"
    /\ IF mt_file_readable
       THEN /\ mt_events' = Append(mt_events, "read_file")
            /\ mt_pc' = "ocr"
            /\ UNCHANGED mt_raised
       ELSE /\ mt_pc' = "crashed"
            /\ mt_raised' = "OSError"
            /\ UNCHANGED mt_events
    /\ UNCHANGED <<notMtext, mtArgs>>

\* client.ocr.process(...) is called.
OcrRequest ==
    /\ mt_pc = "ocr"
    /\ mt_events' = Append(mt_events, "ocr_request")
    /\ mt_pc' = "ocr_wait"
    /\ UNCHANGED <<notMtext, mtArgs, mt_raised>>

\* The OCR request returns the pages, or raises.
OcrResponse ==
    /\ mt_pc = "ocr_wait"
    /\ \E ok \in BOOLEAN :
          IF ok
          THEN /\ mt_events' = Append(mt_events, "ocr_returned")
               /\ mt_pc' = "write"
               /\ UNCHANGED mt_raised
          ELSE /\ mt_pc' = "crashed"
               /\ mt_raised' = "SDKError"
               /\ UNCHANGED mt_events
    /\ UNCHANGED <<notMtext, mtArgs>>

\* with open(args.out, "w") as md: the pages are written.
WriteMarkdown ==
    /\ mt_pc = "write"
    /\ \E ok \in BOOLEAN :
          IF ok
          THEN /\ mt_events' = Append(mt_events, "open_output")
               /\ mt_pc' = "images"
               /\ UNCHANGED mt_raised
          ELSE /\ mt_pc' = "crashed"
               /\ mt_raised' = "OSError"
               /\ UNCHANGED mt_events
    /\ UNCHANGED <<notMtext, mtArgs>>

\* if args.images: the directory is made and the inline images are written.
WriteImages ==
    /\ mt_pc = "images"
    /\ mt_events' = IF images_given THEN Append(mt_events, "write_images") ELSE mt_events
    /\ mt_pc' = "done"
    /\ UNCHANGED <<notMtext, mtArgs, mt_raised>>

MtextNext ==
    \/ CheckApiKey
    \/ CheckSuffix
    \/ ReadFile
    \/ OcrRequest
    \/ OcrResponse
    \/ WriteMarkdown
    \/ WriteImages

MtextSpec == MtextInit /\ [][MtextNext]_vars

\* ------------------------------------------------------------------- claims

\* s begins with pre.
StartsWith(s, pre) ==
    /\ Len(pre) <= Len(s)
    /\ SubSeq(s, 1, Len(pre)) = pre

\* Number of occurrences of the page-break marker in s.
CountMarker(s) ==
    Cardinality({i \in 1..Len(s) :
        /\ i + Len(Marker) - 1 <= Len(s)
        /\ SubSeq(s, i, i + Len(Marker) - 1) = Marker})

NoOutput == [txt |-> "absent", json |-> "absent"]
InSave == pc \in {"save_txt", "save_json"}

\* C1: whatever fails while one file is processed, process_file returns
\* normally and main goes on to the next file: the run is never aborted, and
\* when it has ended, every file of the list has been handed to
\* process_file and main has printed "Processing complete".
C1_NoFailureAbortsRun ==
    /\ raised = "none"
    /\ pc # "crashed"
    /\ pc = "complete" => idx = Len(files_to_process)

\* The statuses on which the polling loop goes on, as the claim lists them.
InProgress == {"notStarted", "running"}
\* The position k of the first status of s that is not in progress.
HasFirstDone(s) == \E k \in 1..Len(s) : s[k] \notin InProgress
FirstDone(s) ==
    CHOOSE k \in 1..Len(s) :
        /\ s[k] \notin InProgress
        /\ \A j \in 1..(k - 1) : s[j] \in InProgress

\* C2: for a status sequence whose first k-1 entries are in progress and
\* whose k-th is not, the polling loop makes exactly k status checks with
\* exactly k-1 waits between them (a wait after every check but the last),
\* and never checks or waits past the k-th answer.
C2_PollCounts ==
    (script # <<>> /\ HasFirstDone(script)) =>
        LET k == FirstDone(script)
        IN  /\ checks <= k
            /\ waits <= k - 1
            /\ pc = "azure_poll" => (checks < k /\ waits = checks)
            /\ pc = "azure_sleep" => (checks < k /\ waits = checks - 1)
            /\ pc = "azure_result" =>
                    (checks = k /\ waits = k - 1 /\ read_status = script[k])

\* C2's case: the answers running, running, succeeded were given and the
\* loop has ended after 3 checks and 2 waits.
C2_Witness ==
    /\ pc = "azure_result"
    /\ SubSeq(script, 1, 3) = <<"running", "running", "succeeded">>
    /\ checks = 3
    /\ waits = 2

\* The structured failure object of ocr_azure_read_stream.
IsAzureFailure(j) ==
    /\ j # None
    /\ j.tag = "dict"
    /\ DOMAIN j.fields = {"error", "details"}

\* C3 (state part): a failure object of the Azure adapter always comes with
\* an absent text, and a direct submission that got one never enters
\* save_results and leaves no output file.
C3_FailureState ==
    /\ IsAzureFailure(page_json) => page_text = None
    /\ IsAzureFailure(json_response) =>
            /\ text_content = None
            /\ ~InSave
            /\ pc # "crashed"
            /\ outputs[idx] = NoOutput

\* C3 (step part): from the end of the polling loop on a status other than
\* succeeded, ocr_azure_read_stream returns to its caller (no exception
\* leaves it) with text None and a failure object carrying that status.
C3_FailureStep ==
    (pc = "azure_result" /\ read_status # "succeeded") =>
        /\ pc' \in {"save_check", "page_collect"}
        /\ raised' = "none"
        /\ LET t == IF caller = "page" THEN page_text' ELSE text_content'
               j == IF caller = "page" THEN page_json' ELSE json_response'
           IN  /\ t = None
               /\ IsAzureFailure(j)
               /\ j.fields.error = read_status
               /\ j.fields.details.status = read_status

\* C3: when the Azure polling loop ends on a status other than succeeded,
\* ocr_azure_read_stream never raises and returns (None, failure object with
\* the provider's status and details); process_file then writes no output
\* file for a direct submission.
C3_AzureFailureIsAbsent == []C3_FailureState /\ [][C3_FailureStep]_vars

\* C3's case: a direct submission whose job ended on failed has returned
\* from process_file with nothing written.
C3_Witness ==
    /\ pc = "main_loop"
    /\ idx >= 1
    /\ IsAzureFailure(json_response)
    /\ json_response.fields.error = "failed"
    /\ text_content = None
    /\ outputs[idx] = NoOutput

\* A job whose provider never leaves the in-progress statuses.
JobHangs == script # <<>> /\ ~HasFirstDone(script)

\* C4: provided every Azure job eventually reports a status that is not in
\* progress, a run over a finite list of files eventually reaches
\* "Processing complete".
C4_RunCompletes == ([]~JobHangs) => ((pc = "main_loop") ~> (pc = "complete"))

\* C5: save_results is all-or-nothing: once save_results is over (returned
\* or failed), the .txt of a file has been written if and only if its .json
\* has.
C5_SaveAllOrNothing ==
    ~InSave =>
        \A i \in 1..Len(files_to_process) :
            (outputs[i].txt = "written") <=> (outputs[i].json = "written")

\* C6: in every processing mode, a file one of whose provider calls failed
\* gets no .txt and no .json, and save_results is not entered for it.
C6_FailedProviderWritesNothing ==
    (idx >= 1 /\ provider_failed) => (~InSave /\ outputs[idx] = NoOutput)

\* The pages entries carry the ordinals 1..n in ascending order.
OrdinalsAscending(entries) == \A i \in 1..Len(entries) : entries[i].page = i

\* C7: for an N-page PDF (N >= 1) processed page by page, the saved text
\* holds exactly N-1 page-break separators and the envelope's pages array
\* exactly N entries in ascending ordinal order.
C7_ForcedPageCounts ==
    (InSave /\ IsForcedPdf /\ npages >= 1) =>
        /\ CountMarker(text_content.val) = npages - 1
        /\ Len(json_response.fields.pages) = npages
        /\ OrdinalsAscending(json_response.fields.pages)

\* A merged text with no separator at either end and no leading or
\* trailing whitespace.
CleanText(s) ==
    /\ ~StartsWith(s, Marker)
    /\ ~EndsWith(s, Marker)
    /\ s # <<>> => (s[1] \notin Whitespace /\ s[Len(s)] \notin Whitespace)

\* The text in process_file's hands came out of an aggregation variant:
\* the Azure read results, the Google direct PDF or the forced join.
TextIsAggregated == idx >= 1 /\ (api_choice = "azure" \/ is_pdf(files_to_process[idx]))

\* C8: the merged text of each aggregation variant never begins or ends
\* with the page-break separator and has no leading or trailing whitespace.
C8_NoDanglingSeparator ==
    /\ (TextIsAggregated /\ text_content # None) => CleanText(text_content.val)
    /\ (api_choice = "azure" /\ page_text # None) => CleanText(page_text.val)

\* The per-page results of the current file are an empty sequence: a
\* forced-mode PDF with no page or none collected, or a direct Google PDF
\* result with zero page responses.
EmptyPageSequence ==
    \/ /\ IsForcedPdf
       /\ all_text_parts = <<>>
       /\ all_json_responses_parts = <<>>
    \/ /\ IsDirectPdf
       /\ api_choice = "google"
       /\ json_response # None
       /\ "pages" \in DOMAIN json_response.fields
       /\ json_response.fields.pages = <<>>

\* C9: when the sequence of per-page results of a file is empty, the
\* aggregated text is the absent signal None, not an empty string, and no
\* output file is written.
C9_EmptySequenceIsAbsent ==
    (idx >= 1 /\ pc \in {"save_check", "save_txt", "save_json"} /\ EmptyPageSequence) =>
        (text_content = None /\ ~InSave)

\* C10: in forced per-page mode a page whose OCR succeeded with empty text
\* is kept: once collected, the last text part is the empty string and the
\* last pages entry carries the page's ordinal; and the file's result is
\* not absent.
C10_EmptyPageKept ==
    /\ (pc = "page_loop" /\ page_num >= 1 /\ page_text = Str(<<>>)) =>
            /\ all_text_parts # <<>>
            /\ all_text_parts[Len(all_text_parts)] = <<>>
            /\ all_json_responses_parts # <<>>
            /\ all_json_responses_parts[Len(all_json_responses_parts)].page = page_num
    /\ (pc = "save_check" /\ IsForcedPdf) => text_content # None

\* The provider call behind json succeeded and recognised nothing: an Azure
\* result whose pages have no line, a Google PDF result whose pages have no
\* annotation, a Google image response with no annotation.
NoTextDetected(json) ==
    /\ json # None
    /\ CASE "read_results" \in DOMAIN json.fields ->
                \A p \in 1..Len(json.fields.read_results) :
                    json.fields.read_results[p] = <<>>
         [] "pages" \in DOMAIN json.fields ->
                \A p \in 1..Len(json.fields.pages) :
                    DOMAIN json.fields.pages[p].raw.fields = {}
         [] OTHER -> DOMAIN json.fields = {}

\* C11: when the provider call for an image or a direct PDF succeeds but
\* detects no text, process_file holds a success with empty text: the text
\* is the empty string, and the test before save_results takes the saving
\* branch, not the 'Failed to OCR' branch.
C11_NoTextIsEmptySuccess ==
    (/\ pc = "save_check"
     /\ strategy \in {"direct", "single_image"}
     /\ NoTextDetected(json_response)) =>
        /\ text_content = Str(<<>>)
        /\ HasResults(text_content, json_response)

\* json is an envelope whose top-level pages array has n entries.
HasTopLevelPages(json, n) ==
    /\ "pages" \in DOMAIN json.fields
    /\ Len(json.fields.pages) = n

\* C12: for a supported image file whose provider call succeeded, the JSON
\* handed to save_results is an envelope whose top-level pages array has
\* exactly one entry, and once save_results has returned exactly the .txt
\* and the .json of that file exist.
C12_ImageEnvelopeHasOnePage ==
    /\ (InSave /\ strategy = "single_image") =>
            HasTopLevelPages(json_response, 1)
    /\ (pc = "main_loop" /\ strategy = "single_image" /\ ~provider_failed
            /\ text_content # None) =>
            outputs[idx] = [txt |-> "written", json |-> "written"]

\* json has exactly the keys pages, source_file and method, with this method.
IsEnvelope(json, method) ==
    /\ DOMAIN json.fields = {"pages", "source_file", "method"}
    /\ json.fields.method = method

\* C13: every JSON object handed to save_results is an envelope with the
\* three keys pages, source_file and method; method is
\* "pdf_converted_to_images" in forced per-page mode and "direct" otherwise.
C13_SavedJsonIsEnvelope ==
    InSave =>
        IsEnvelope(json_response,
                   IF strategy = "per_page" THEN "pdf_converted_to_images"
                   ELSE "direct")

\* C14: two distinct files of one run whose outputs were written never
\* have the same output stem.
C14_OutputStemsDistinct ==
    \A i, j \in 1..Len(files_to_process) :
        (/\ i # j
         /\ outputs[i].txt = "written"
         /\ outputs[j].txt = "written") => out_stem[i] # out_stem[j]

\* C15: if the client of the selected API cannot be initialized (the
\* credentials file is missing, unreadable, or lacks 'endpoint'/'key'),
\* there is no client and main has returned before any file: none was
\* scanned or passed to process_file, no provider call is open and nothing
\* was written.
C15_FailedInitHalts ==
    /\ (pc # "start" /\ creds # "ok") => client = None
    /\ (pc # "start" /\ client = None) =>
            /\ pc = "exit_client_init"
            /\ files_to_process = <<>>
            /\ idx = 0
            /\ strategy = "none"
            /\ caller = "none"
            /\ outputs = <<>>

C15_Witness ==
    /\ pc = "exit_client_init"
    /\ api_choice = "azure"
    /\ creds = "no_keys"
    /\ dir_entries # <<>>

\* A provider call of the current file has been made or is about to be.
AtProvider ==
    \/ pc \in {"image_ocr", "page_collect", "azure_submit", "azure_poll",
               "azure_sleep", "azure_result", "save_check", "save_txt", "save_json"}
    \/ pc = "page_loop" /\ page_num >= 1

\* C16: of a scanned directory, files_to_process holds exactly the entries
\* with a supported extension, each once and in order; the loop passes them
\* to process_file one after the other, none twice; no provider call is made
\* for a file with an unsupported extension; and every file of the list is
\* passed to process_file in the end (provided no Azure job hangs).
C16_SupportedFilesAllProcessed ==
    /\ []((input_kind = "dir" /\ pc \notin {"start", "scan", "exit_client_init"}) =>
            /\ files_to_process =
                    SelectSeq(dir_entries, LAMBDA p : is_pdf(p) \/ is_image(p))
            /\ AtProvider =>
                    (is_pdf(files_to_process[idx]) \/ is_image(files_to_process[idx])))
    /\ [][idx' # idx => (pc = "main_loop" /\ pc' = "process_file" /\ idx' = idx + 1)]_vars
    /\ ([]~JobHangs) =>
            ((input_kind = "dir" /\ pc = "main_loop") ~> (idx = Len(files_to_process)))

\* a and b are the same suffix up to the case of their letters.
EqualIgnoringCase(a, b) ==
    /\ Len(a) = Len(b)
    /\ \A i \in 1..Len(a) :
        \/ a[i] = b[i]
        \/ \E k \in 1..Len(UpperLetters) :
                {a[i], b[i]} = {UpperLetters[k], LowerLetters[k]}

\* The path process_file was called on.
CalledPath == files_to_process[1]

\* C17: process_file puts every path into exactly one of image, PDF and
\* unsupported by its suffix, whatever the case of its letters: image
\* exactly for the eight listed suffixes, PDF exactly for .pdf, never both;
\* an unsupported path is skipped with no provider call and no output.
C17_ClassifiedByExtension ==
    /\ Cardinality(SUPPORTED_IMAGE_EXTENSIONS) = 8
    /\ is_image(CalledPath) <=>
            \E e \in SUPPORTED_IMAGE_EXTENSIONS : EqualIgnoringCase(CalledPath.ext, e)
    /\ is_pdf(CalledPath) <=>
            EqualIgnoringCase(CalledPath.ext, <<".", "p", "d", "f">>)
    /\ ~(is_image(CalledPath) /\ is_pdf(CalledPath))
    /\ idx = 1 =>
            /\ Cardinality({b \in {IsImage, IsDirectPdf \/ IsForcedPdf, IsUnsupported} : b}) = 1
            /\ strategy = "single_image" => is_image(CalledPath)
            /\ strategy \in {"direct", "per_page"} => is_pdf(CalledPath)
            /\ strategy = "skipped" => IsUnsupported
            /\ IsUnsupported =>
                    /\ pc \in {"process_file", "main_loop", "complete"}
                    /\ strategy \in {"none", "skipped"}
                    /\ caller = "none"
                    /\ text_content = None
                    /\ outputs[1] = NoOutput

C17_Witness ==
    /\ pc = "main_loop"
    /\ strategy = "skipped"
    /\ CalledPath.ext = <<".", "p", "d", "f", "x">>

\* The strategy the kind of the current file and the flag call for.
StrategyFor(path, force) ==
    IF is_pdf(path) THEN (IF force THEN "per_page" ELSE "direct") ELSE "single_image"

\* C18: the strategy taken for a file is the one its kind and the force
\* flag call for (a PDF direct iff the flag is off, page by page iff it is
\* on, an image always as one submission); the run only ever is in the code
\* of that strategy; and once taken the strategy of a file does not change.
C18_StrategyByKindAndFlag ==
    /\ []((idx >= 1 /\ strategy # "none") =>
            /\ strategy = StrategyFor(files_to_process[idx], force_pdf_to_images)
            /\ pc \in {"page_loop", "page_collect"} => strategy = "per_page"
            /\ pc = "image_ocr" => strategy = "single_image"
            /\ caller = "page" => strategy = "per_page"
            /\ caller = "image" => strategy = "single_image"
            /\ caller = "direct" => strategy = "direct")
    /\ []((pc \in {"image_ocr", "page_loop", "page_collect", "azure_submit",
                   "azure_poll", "azure_sleep", "azure_result", "save_check",
                   "save_txt", "save_json"}) => strategy # "none")
    /\ [][strategy' # strategy =>
            \/ strategy = "none" /\ pc = "process_file"
            \/ strategy' = "none" /\ pc = "main_loop"]_vars

C18_Witness ==
    /\ idx = 2
    /\ force_pdf_to_images
    /\ is_pdf(files_to_process[1])
    /\ outputs[1].json = "written"
    /\ strategy = "single_image"
    /\ pc = "save_check"

\* The ordinals of the pages entries strictly ascend.
StrictlyAscending(entries) ==
    \A i, j \in 1..Len(entries) : i < j => entries[i].page < entries[j].page

\* A call for the current page is open or its result not yet collected.
PageInFlight ==
    \/ pc = "page_collect"
    \/ pc \in {"azure_submit", "azure_poll", "azure_sleep", "azure_result"}
            /\ caller = "page"

\* C19: in forced per-page mode pages are submitted one at a time in
\* ascending order (page_num goes up by one, and only when no page is in
\* flight), and results are collected in submission order: the text parts
\* and the pages entries only grow at their end, by the result of the page
\* just submitted, so the entries' ordinals strictly ascend.
C19_PagesInOrder ==
    /\ [](strategy = "per_page" =>
            /\ StrictlyAscending(all_json_responses_parts)
            /\ Len(all_text_parts) <= page_num
            /\ \A i \in 1..Len(all_json_responses_parts) :
                    /\ all_json_responses_parts[i].page <= page_num
                    /\ PageInFlight => all_json_responses_parts[i].page < page_num)
    /\ [][(strategy = "per_page" /\ strategy' = "per_page") =>
            /\ page_num' # page_num =>
                    (pc = "page_loop" /\ page_num' = page_num + 1 /\ page_num' <= npages)
            /\ all_text_parts' # all_text_parts =>
                    (/\ pc = "page_collect"
                     /\ all_text_parts' = Append(all_text_parts, page_text.val))
            /\ all_json_responses_parts' # all_json_responses_parts =>
                    (/\ pc = "page_collect"
                     /\ all_json_responses_parts' =
                            Append(all_json_responses_parts,
                                   [page |-> page_num, response |-> page_json]))]_vars

C19_Witness ==
    /\ strategy = "per_page"
    /\ pc = "page_loop"
    /\ page_num = 2
    /\ Len(all_text_parts) = 2
    /\ Len(all_json_responses_parts) = 2

\* The step leaves ocr_azure_read_stream from the submission or from a
\* status check without a status having ended the loop: an exception.
AzureExceptionStep ==
    /\ pc \in {"azure_submit", "azure_poll"}
    /\ pc' \notin {"azure_poll", "azure_sleep", "azure_result"}

\* C20: an exception raised during the submission or during a status check
\* of the polling loop comes back to process_file as the failure value
\* (text None): nothing is raised in process_file, which goes on with the
\* absent result.
C20_AzureExceptionIsFailureValue ==
    /\ [](pc \in {"azure_submit", "azure_poll", "azure_sleep", "azure_result"} =>
            raised = "none")
    /\ [][AzureExceptionStep =>
            /\ raised' = "none"
            /\ provider_failed'
            /\ IF caller = "page"
               THEN pc' = "page_collect" /\ page_text' = None
               ELSE pc' = "save_check" /\ text_content' = None]_vars

C20_Witness ==
    /\ api_choice = "azure"
    /\ strategy = "single_image"
    /\ pc = "main_loop"
    /\ text_content = None
    /\ json_response = None
    /\ provider_failed
    /\ raised = "none"

\* process_file has returned for the current file because rasterizing its
\* PDF failed (no page list was ever obtained).
RasterizeFailed ==
    /\ pc = "main_loop"
    /\ strategy = "per_page"
    /\ npages = 0
    /\ text_content = None

\* C21: when rasterizing a PDF fails in forced per-page mode, process_file
\* returns for that file with nothing raised and nothing written for it,
\* and the next step of main passes the next file of the list to
\* process_file (or ends the run after the last one).
C21_RasterizeFailureSkipsFile ==
    /\ [](RasterizeFailed => (raised = "none" /\ outputs[idx] = NoOutput))
    /\ [][(pc = "process_file" /\ IsForcedPdf /\ pc' # "page_loop") =>
            (pc' = "main_loop" /\ raised' = "none" /\ outputs' = outputs
                /\ text_content' = None)]_vars
    /\ [][RasterizeFailed =>
            IF idx < Len(files_to_process)
            THEN idx' = idx + 1 /\ pc' = "process_file"
            ELSE pc' = "complete"]_vars

C21_Witness ==
    /\ idx = 2
    /\ pc = "save_check"
    /\ force_pdf_to_images
    /\ is_pdf(files_to_process[1])
    /\ outputs[1] = NoOutput
    /\ out_stem[1] = None
    /\ ~is_pdf(files_to_process[2])
    /\ text_content # None

\* C22: for a direct Google PDF result with n page responses the envelope's
\* pages array has n entries, the i-th carrying the ordinal i and the raw
\* response of page i, with or without text (for every list of responses,
\* evaluated once, before the run); so the ordinals of every envelope
\* process_file holds are 1..n without a gap.
C22_GooglePdfPagesOrdinals ==
    /\ pc = "start" =>
        \A rs \in SeqsUpTo(GoogleResponses, MaxPages) :
            LET env == OcrGooglePdf([kind |-> "responses", responses |-> rs], 1)[2]
            IN  /\ Len(env.fields.pages) = Len(rs)
                /\ \A i \in 1..Len(rs) :
                    /\ env.fields.pages[i].page_number_from_ocr_iteration = i
                    /\ env.fields.pages[i].raw = MessageToDict(rs[i])
    /\ (strategy = "direct" /\ api_choice = "google" /\ json_response # None
            /\ "pages" \in DOMAIN json_response.fields) =>
            \A i \in 1..Len(json_response.fields.pages) :
                json_response.fields.pages[i].page_number_from_ocr_iteration = i

C22_Witness ==
    /\ strategy = "direct"
    /\ api_choice = "google"
    /\ pc = "save_check"
    /\ json_response # None
    /\ "pages" \in DOMAIN json_response.fields
    /\ Len(json_response.fields.pages) = 2
    /\ DOMAIN json_response.fields.pages[1].raw.fields = {}
    /\ DOMAIN json_response.fields.pages[2].raw.fields # {}

\* The text of n pages as blocks (a page's lines joined by newlines) joined
\* by the page-break separator.
BlocksJoined(read_results) ==
    Join(PageBreak,
         [p \in 1..Len(read_results) |-> Join(<<NL>>, read_results[p])])

\* Every page of the read result has at least one line, and there is a page.
AllPagesHaveLines(read_results) ==
    /\ read_results # <<>>
    /\ \A p \in 1..Len(read_results) : read_results[p] # <<>>

\* The text belongs to the Azure result json, of pages that all have lines.
AzureTextOfFullPages(text, json) ==
    /\ api_choice = "azure"
    /\ text # None
    /\ json # None
    /\ "read_results" \in DOMAIN json.fields
    /\ AllPagesHaveLines(json.fields.read_results)

\* C26: for a succeeded Azure read result of n >= 1 pages that each have a
\* line, the returned text is the n page blocks joined by the separator:
\* n-1 separators, none after the last page.
C26_AzureBlocksJoined ==
    /\ AzureTextOfFullPages(text_content, json_response) =>
            /\ text_content.val = BlocksJoined(json_response.fields.read_results)
            /\ CountMarker(text_content.val) =
                    Len(json_response.fields.read_results) - 1
            /\ ~EndsWith(text_content.val, Marker)
    /\ AzureTextOfFullPages(page_text, page_json) =>
            /\ page_text.val = BlocksJoined(page_json.fields.read_results)
            /\ CountMarker(page_text.val) = 0

C26_Witness ==
    /\ pc = "save_check"
    /\ AzureTextOfFullPages(text_content, json_response)
    /\ Len(json_response.fields.read_results) = 2
    /\ CountMarker(text_content.val) = 1

\* C23: in multi_extractor, when the provider call for the file failed (API
\* error, unreadable file, PDF conversion or page processing error), no
\* output file is written for that provider: no file on disk holds the
\* result of a failed call.
C23_FailedCallWritesNothing ==
    \A k \in 1..Len(mx_outputs) : ~mx_outputs[k].failed

\* The processing loop of multi_extractor is running or over.
InProcessing ==
    mx_pc \in {"process_loop", "dispatch", "pdf_page", "save", "complete"}

\* The providers whose iteration of the processing loop is over.
ProvidersDone == IF mx_pc \in {"dispatch", "pdf_page", "save"} THEN proc_i - 1 ELSE proc_i

C27_InitFailureSkipsProvider ==
    /\ mx_raised = "none"
    /\ (InProcessing \/ mx_pc = "check_file") =>
            /\ providers_to_use_config # <<>>
            /\ \A k \in 1..Len(providers_to_use_config) :
                    providers_to_use_config[k].name \notin init_fails

\* C28: for every provider and every N-page PDF that rasterizes, what
\* process_pdf_file_with_provider returns is N sections joined by blank
\* lines, the i-th headed '--- Page i ---' and followed by the provider's
\* output for page i.
C28_PdfSectionsPerPage ==
    (mx_pc = "save" /\ mx_file_kind = "pdf" /\ page_pil_images >= 1) =>
        /\ Len(all_page_texts) = page_pil_images
        /\ \A i \in 1..Len(all_page_texts) :
                /\ all_page_texts[i][1] = Tok("--- Page", "", i)
                /\ all_page_texts[i][3].who = provider_name
        /\ extracted_text = Str(Join(<<Tok("blank line", "", 0)>>, all_page_texts))

\* The active providers: the one given by --provider, or those detected.
ActiveProviders ==
    IF args_provider # "None" THEN <<args_provider>> ELSE ActiveAutoProviders(env_keys)

\* C29: once the providers are selected, the model of each is the --model
\* value if a value was given and exactly one provider is active, and the
\* provider's default model otherwise; it is never empty.
C29_ModelArgOnlyForSingleProvider ==
    mx_pc \notin {"off", "select", "exit_no_api_key", "exit_no_api_keys"} =>
        /\ mx_pc = "init_loop" /\ init_i = 0 =>
                /\ Len(providers_to_use_config) = Len(ActiveProviders)
                /\ \A k \in 1..Len(ActiveProviders) :
                        providers_to_use_config[k].name = ActiveProviders[k]
        /\ \A k \in 1..Len(providers_to_use_config) :
                LET item == providers_to_use_config[k]
                IN  /\ item.model =
                            IF Truthy(args_model) /\ Len(ActiveProviders) = 1
                            THEN args_model
                            ELSE DefaultModel(item.name)
                    /\ Truthy(item.model)

C29_Witness ==
    /\ mx_pc = "complete"
    /\ args_provider = "None"
    /\ args_model = Str(<<"m">>)
    /\ Len(providers_to_use_config) = 2
    /\ providers_to_use_config[2].model = DefaultModel("anthropic")

\* The extension of the input of gdocai.py is not a key of SUPPORTED_MIME_TYPES.
GdUnsupportedExtension == Lower(gd_suffix) \notin DOMAIN SUPPORTED_MIME_TYPES

\* C24: when the extension of the input is not a key of SUPPORTED_MIME_TYPES,
\* get_mime_type gives no MIME type, the script stops with an error and no
\* document is submitted to the processor.
C24_UnsupportedExtensionNotSubmitted ==
    GdUnsupportedExtension =>
        /\ file_mime_type = None
        /\ ~gd_submitted
        /\ gd_pc \in {"check_project", "check_processor", "check_file", "mime", "exit_1"}

\* The side effects of mtext_extractor.py in the order the script makes them.
MtextEffectsInOrder ==
    <<"read_file", "ocr_request", "ocr_returned", "open_output", "write_images">>

\* C30: the checks of mtext_extractor.py come before every side effect: with no
\* MISTRAL_API_KEY or with an extension that is not in MIME_MAP the script
\* raises with the input unread, no OCR request made and no output opened; and
\* in every run the input is read before the request is made and the Markdown
\* file is opened only after the request has returned.
C30_ChecksPrecedeSideEffects ==
    /\ (mt_pc # "off" /\ (~api_key_set \/ Lower(mt_suffix) \notin MIME_MAP)) =>
          /\ mt_events = <<>>
          /\ mt_pc \in {"env", "mime", "crashed"}
          /\ mt_pc = "crashed" => mt_raised \in {"RuntimeError", "ValueError"}
    /\ \/ mt_events = SubSeq(MtextEffectsInOrder, 1, Len(mt_events))
       \/ /\ ~images_given
          /\ mt_events = SubSeq(MtextEffectsInOrder, 1, 4)
    /\ Len(mt_events) <= Len(MtextEffectsInOrder)

\* A file with an unsupported extension was refused with a key set, and another
\* run got as far as opening its output.
C30_Witness ==
    \/ /\ api_key_set
       /\ mt_suffix = <<".", "b", "m", "p">>
       /\ mt_raised = "ValueError"
       /\ mt_events = <<>>
    \/ /\ mt_pc = "done"
       /\ mt_events = MtextEffectsInOrder

====
